---------------------------- MODULE Spec2Model ----------------------------
(***************************************************************************)
(* Model of TextFileSorter (src/main.cpp): the line validator and file     *)
(* loader, the three string comparers, the merge sort, and the sequential  *)
(* and concurrent ingestion strategies.                                    *)
(*                                                                         *)
(* A string is a sequence of character codes (ASCII).  A vector<string> is *)
(* a sequence; the C++ index i is position i + 1 of the sequence.  Inside  *)
(* the sort every element carries, besides its string, the ghost field     *)
(* orig: its index in the vector handed to MergeSortWrapper.  The code     *)
(* never reads it; it only lets the properties tell equal strings apart.   *)
(***************************************************************************)
EXTENDS Integers, Sequences, FiniteSets, TLC

(***************************************************************************)
(* Bounds of the model.                                                    *)
(***************************************************************************)
MaxStrLen == 2      \* longest Line of the sort and comparer inputs
MaxLen == 3         \* longest vector handed to MergeSortWrapper
RawStrLen == 2      \* longest raw line of a source read by ReadFile
MaxLines == 2       \* most raw lines of a source read by ReadFile
MaxFiles == 2       \* most sources of a run of the two strategies

(***************************************************************************)
(* Characters and strings.                                                 *)
(***************************************************************************)
\* 'a', 'b': the letters of the Lines that are sorted.
Letters == {97, 98}
\* 'B', 'a', 'b': the letters of the Lines that are compared.
CmpLetters == {66, 97, 98}
\* ' ', '0', 'Z', 'a': the characters of the raw lines of a source.
RawChars == {32, 48, 90, 97}

\* All sequences over S of length at most n.
SeqsUpTo(S, n) == UNION {[1..m -> S] : m \in 0..n}

Lines == SeqsUpTo(Letters, MaxStrLen) \ {<<>>}
CmpLines == SeqsUpTo(CmpLetters, MaxStrLen) \ {<<>>}
RawLines == SeqsUpTo(RawChars, RawStrLen)

ESortType == {"AlphAsc", "AlphDesc", "LastLetterAsc"}

(***************************************************************************)
(* The three comparers.                                                    *)
(***************************************************************************)
RECURSIVE AlphAscLoop(_, _, _)
AlphAscLoop(firstString, secondString, i) ==
    IF i < Len(firstString) /\ i < Len(secondString)
    THEN IF firstString[i + 1] < secondString[i + 1] THEN TRUE
         ELSE IF firstString[i + 1] > secondString[i + 1] THEN FALSE
         ELSE AlphAscLoop(firstString, secondString, i + 1)
    ELSE Len(firstString) < Len(secondString)

AlphAscIsFirstAboveSecond(firstString, secondString) ==
    AlphAscLoop(firstString, secondString, 0)

RECURSIVE AlphDescLoop(_, _, _)
AlphDescLoop(firstString, secondString, i) ==
    IF i < Len(firstString) /\ i < Len(secondString)
    THEN IF firstString[i + 1] > secondString[i + 1] THEN TRUE
         ELSE IF firstString[i + 1] < secondString[i + 1] THEN FALSE
         ELSE AlphDescLoop(firstString, secondString, i + 1)
    ELSE Len(secondString) < Len(firstString)

AlphDescIsFirstAboveSecond(firstString, secondString) ==
    AlphDescLoop(firstString, secondString, 0)

\* r counts the increments of the two reverse iterators: r = Len(s) is rend().
RECURSIVE LastLetterLoop(_, _, _)
LastLetterLoop(firstString, secondString, r) ==
    IF r = Len(firstString) THEN TRUE
    ELSE IF r = Len(secondString) THEN FALSE
    ELSE IF firstString[Len(firstString) - r] # secondString[Len(secondString) - r]
         THEN firstString[Len(firstString) - r] < secondString[Len(secondString) - r]
         ELSE LastLetterLoop(firstString, secondString, r + 1)

LastLetterAscIsFirstAboveSecond(firstString, secondString) ==
    LastLetterLoop(firstString, secondString, 0)

\* The virtual call stringComparer->IsFirstAboveSecond, with the comparer the
\* switch of MergeSortWrapper creates for sortType (default: AlphAscStrComp).
IsFirstAboveSecond(sortType, firstString, secondString) ==
    CASE sortType = "AlphAsc" -> AlphAscIsFirstAboveSecond(firstString, secondString)
      [] sortType = "AlphDesc" -> AlphDescIsFirstAboveSecond(firstString, secondString)
      [] sortType = "LastLetterAsc" ->
             LastLetterAscIsFirstAboveSecond(firstString, secondString)
      [] OTHER -> AlphAscIsFirstAboveSecond(firstString, secondString)

(***************************************************************************)
(* The merge sort.                                                         *)
(***************************************************************************)
\* What a read outside the vector yields in the model.
OutOfRange == [str |-> <<>>, orig |-> -1]

\* originVec[i], read and written.
At(vec, i) == IF i + 1 \in DOMAIN vec THEN vec[i + 1] ELSE OutOfRange
\* (EXCEPT leaves vec as it is when k + 1 is outside its domain.)
Put(vec, k, x) == [vec EXCEPT ![k + 1] = x]

\* The element of a singleton.  A value bound by x \in {e} is computed once.
The(S) == CHOOSE x \in S : TRUE

\* Division of ints, truncating toward zero.
CDiv(a, b) == IF a >= 0 THEN a \div b ELSE -((-a) \div b)

UpperSizeShort(upper, mid) == mid - upper

UpperSize(upper, mid) == mid - upper + 1

LowerSize(mid, lower) == lower - mid

\* The test of the merge loop: is the head of the upper array emitted?
TakeUpper(sortType, u, l) == IsFirstAboveSecond(sortType, u.str, l.str)

\* The three while loops of merge.
RECURSIVE MergeLoop(_, _, _, _, _, _, _)
MergeLoop(originVec, upArray, lowArray, i, j, k, sortType) ==
    IF i < Len(upArray) /\ j < Len(lowArray)
    THEN IF TakeUpper(sortType, upArray[i + 1], lowArray[j + 1])
         THEN MergeLoop(Put(originVec, k, upArray[i + 1]), upArray, lowArray,
                        i + 1, j, k + 1, sortType)
         ELSE MergeLoop(Put(originVec, k, lowArray[j + 1]), upArray, lowArray,
                        i, j + 1, k + 1, sortType)
    ELSE IF i < Len(upArray)
    THEN MergeLoop(Put(originVec, k, upArray[i + 1]), upArray, lowArray,
                   i + 1, j, k + 1, sortType)
    ELSE IF j < Len(lowArray)
    THEN MergeLoop(Put(originVec, k, lowArray[j + 1]), upArray, lowArray,
                   i, j + 1, k + 1, sortType)
    ELSE originVec

merge(originVec, upper, mid, lower, sortType) ==
    LET upperSize == UpperSize(upper, mid)
        lowerSize == LowerSize(mid, lower)
        upArray == [i \in 1..upperSize |-> At(originVec, upper + (i - 1))]
        lowArray == [j \in 1..lowerSize |-> At(originVec, mid + 1 + (j - 1))]
    IN  MergeLoop(originVec, upArray, lowArray, 0, 0, upper, sortType)

\* The elements of originVec that one call of merge reads and writes.
MergeAccesses(upper, mid, lower) ==
    2 * (UpperSize(upper, mid) + LowerSize(mid, lower))

\* vec: originVec on return; calls: the recursive calls made; accesses: the
\* element reads and writes made.
RECURSIVE MergeSort(_, _, _, _)
MergeSort(originVec, upper, lower, sortType) ==
    IF upper < lower
    THEN LET mid == upper + CDiv(lower - upper, 2)
         IN  The({ The({ [vec |-> merge(second.vec, upper, mid, lower, sortType),
                          calls |-> first.calls + second.calls + 2,
                          accesses |-> first.accesses + second.accesses
                                         + MergeAccesses(upper, mid, lower)]
                         : second \in {MergeSort(first.vec, mid + 1, lower, sortType)} })
                   : first \in {MergeSort(originVec, upper, mid, sortType)} })
    ELSE [vec |-> originVec, calls |-> 0, accesses |-> 0]

\* size_t is 64 bits wide: four limbs of 16 bits, least significant first.
SizeT(n) == <<n % (2^16), (n \div (2^16)) % (2^16), 0, 0>>

\* x - 1 on size_t, wrapping around at 0.
RECURSIVE Decrement(_, _)
Decrement(x, limb) ==
    IF limb > Len(x) THEN x
    ELSE IF x[limb] > 0 THEN [x EXCEPT ![limb] = x[limb] - 1]
    ELSE Decrement([x EXCEPT ![limb] = 2^16 - 1], limb + 1)

\* size_t to int: the low 32 bits, read as two's complement.
ToInt(x) == x[1] + (2^16) * (IF x[2] >= 2^15 THEN x[2] - 2^16 ELSE x[2])

LowerIndexPlus(size) == size + 1

\* The argument listToSort.size() - 1 as MergeSort receives it.
LowerIndex(size) == ToInt(Decrement(SizeT(size), 1))

Tagged(listToSort) ==
    [i \in 1..Len(listToSort) |-> [str |-> listToSort[i], orig |-> i - 1]]

Strs(vec) == [i \in 1..Len(vec) |-> vec[i].str]

\* The run of MergeSort that MergeSortWrapper makes.
SortRun(listToSort, sortType) ==
    The({ MergeSort(vec, 0, LowerIndex(Len(listToSort)), sortType)
          : vec \in {Tagged(listToSort)} })

MergeSortWrapper(listToSort, sortType) ==
    The({ Strs(run.vec) : run \in {SortRun(listToSort, sortType)} })

(***************************************************************************)
(* The line validator and the file loader.                                 *)
(***************************************************************************)
\* isdigit and isalnum of <cctype> in the "C" locale, on ASCII.
IsDigit(ch) == ch \in 48..57
IsAlnum(ch) == ch \in 48..57 \/ ch \in 65..90 \/ ch \in 97..122

SpecialCharNoDigit(ch) == ~IsAlnum(ch)

\* The test of ContainsSpecial on one character.
SpecialChar(ch) == IsDigit(ch) \/ ~IsAlnum(ch)

RECURSIVE ContainsSpecialFrom(_, _)
ContainsSpecialFrom(str, p) ==
    IF p > Len(str) THEN FALSE
    ELSE IF SpecialChar(str[p]) THEN TRUE
    ELSE ContainsSpecialFrom(str, p + 1)

ContainsSpecial(str) == ContainsSpecialFrom(str, 1)

\* The while (getline(fileIn, line)) loop over the lines not yet read.
RECURSIVE ReadLines(_, _)
ReadLines(lines, listOut) ==
    IF lines = <<>> THEN listOut
    ELSE LET line == Head(lines)
         IN  IF line # <<>>
             THEN IF ContainsSpecial(line)
                  THEN ReadLines(Tail(lines), listOut)
                  ELSE ReadLines(Tail(lines), Append(listOut, line))
             ELSE ReadLines(Tail(lines), listOut)

ReadFileIgnoringOpen(file) == ReadLines(file.lines, <<>>)

\* A source is [open, lines]: whether ifstream can open it, and the lines
\* getline yields from it.  An opened stream is good, so the second test of
\* ReadFile (!fileIn) never succeeds after the first (!is_open()) failed.
ReadFile(file) ==
    IF ~file.open THEN <<>>
    ELSE ReadLines(file.lines, <<>>)

(***************************************************************************)
(* State.                                                                  *)
(***************************************************************************)
VARIABLES
    sortType,     \* the ESortType of the run
    \* MergeSortWrapper taken alone
    listToSort,   \* its argument
    sortRun,      \* what its run of MergeSort returned
    sortPc,       \* "off", "call", "done"
    \* a comparer taken alone
    cmpArgs,      \* three Lines
    cmpOut,       \* the results of IsFirstAboveSecond on them
    cmpPc,        \* "off", "call", "done"
    \* ReadFile taken alone
    source,       \* its source
    listOut,      \* the Document it returned
    loadPc,       \* "off", "call", "done"
    \* main: singleThreading, then multiThreading, on the same fileList
    files,        \* the sources of fileList, in list order
    spc,          \* singleThreading: "off", "read", "write", "done"
    si,           \* singleThreading: the source the for loop is at
    sFinal,       \* singleThreading: finalList
    sSink,        \* singleThreading: what WriteAndPrint received
    mpc,          \* multiThreading: "off", "idle", "launch", "yield", "poll",
                  \*   "collect", "write", "done"
    mi,           \* multiThreading: the index the current loop is at
    done,         \* multiThreading: the flags, "null", "false" or "true"
    allDone,      \* multiThreading: the local allDone
    wpc,          \* per task: "none", "run", "read", "flagged", "ready"
    wres,         \* per task: the local result of the lambda
    mFinal,       \* multiThreading: finalList
    mSink         \* multiThreading: what WriteAndPrint received

sortVars == <<listToSort, sortRun, sortPc>>
cmpVars == <<cmpArgs, cmpOut, cmpPc>>
loadVars == <<source, listOut, loadPc>>
seqVars == <<spc, si, sFinal, sSink>>
multiVars == <<mpc, mi, done, allDone, wpc, wres, mFinal, mSink>>
vars == <<sortType, sortVars, cmpVars, loadVars, files, seqVars, multiVars>>

NotWritten == <<"not written">>

SortOff == listToSort = <<>> /\ sortRun = <<>> /\ sortPc = "off"
CmpOff == cmpArgs = <<>> /\ cmpOut = <<>> /\ cmpPc = "off"
LoadOff == source = <<>> /\ listOut = <<>> /\ loadPc = "off"
MainOff ==
    /\ files = <<>> /\ spc = "off" /\ si = 0 /\ sFinal = <<>> /\ sSink = NotWritten
    /\ mpc = "off" /\ mi = 0 /\ done = <<>> /\ allDone = FALSE
    /\ wpc = <<>> /\ wres = <<>> /\ mFinal = <<>> /\ mSink = NotWritten

(***************************************************************************)
(* MergeSortWrapper taken alone.                                           *)
(***************************************************************************)
SortInit ==
    /\ sortType \in ESortType
    /\ listToSort \in SeqsUpTo(Lines, MaxLen)
    /\ sortRun = <<>>
    /\ sortPc = "call"
    /\ CmpOff /\ LoadOff /\ MainOff

CallSort ==
    /\ sortPc = "call"
    /\ sortRun' = SortRun(listToSort, sortType)
    /\ sortPc' = "done"
    /\ UNCHANGED <<sortType, listToSort, cmpVars, loadVars, files, seqVars, multiVars>>

SortNext == CallSort

SortSpec == SortInit /\ [][SortNext]_vars

(***************************************************************************)
(* A comparer taken alone.                                                 *)
(***************************************************************************)
CmpInit ==
    /\ sortType \in ESortType
    /\ cmpArgs \in [1..3 -> CmpLines]
    /\ cmpOut = <<>>
    /\ cmpPc = "call"
    /\ SortOff /\ LoadOff /\ MainOff

\* cmpOut[x][y] is IsFirstAboveSecond(cmpArgs[x], cmpArgs[y]).
CallCompare ==
    /\ cmpPc = "call"
    /\ cmpOut' = [x \in 1..3 |-> [y \in 1..3 |->
                     IsFirstAboveSecond(sortType, cmpArgs[x], cmpArgs[y])]]
    /\ cmpPc' = "done"
    /\ UNCHANGED <<sortType, cmpArgs, sortVars, loadVars, files, seqVars, multiVars>>

CmpNext == CallCompare

CmpSpec == CmpInit /\ [][CmpNext]_vars

(***************************************************************************)
(* ReadFile taken alone.                                                   *)
(***************************************************************************)
LoadInit ==
    /\ sortType = "AlphAsc"
    /\ source \in [open : BOOLEAN, lines : SeqsUpTo(RawLines, MaxLines)]
    /\ listOut = <<>>
    /\ loadPc = "call"
    /\ SortOff /\ CmpOff /\ MainOff

CallReadFile ==
    /\ loadPc = "call"
    /\ listOut' = ReadFile(source)
    /\ loadPc' = "done"
    /\ UNCHANGED <<sortType, source, sortVars, cmpVars, files, seqVars, multiVars>>

LoadNext == CallReadFile

LoadSpec == LoadInit /\ [][LoadNext]_vars

(***************************************************************************)
(* main: singleThreading, then multiThreading, on the same fileList and    *)
(* with the same sortType.                                                 *)
(***************************************************************************)
\* The sources a fileList is drawn from: "b" "a"; "a" "a0" "" "a " "ab" (one
\* line with a digit, one empty, one with a space); a source that cannot be
\* opened.
SampleFiles ==
    { [open |-> TRUE, lines |-> << <<98>>, <<97>> >>],
      [open |-> TRUE, lines |-> << <<97>>, <<97, 48>>, <<>>, <<97, 32>>, <<97, 98>> >>],
      [open |-> FALSE, lines |-> << <<98>>, <<97>> >>] }

NumFiles == Len(files)

Init ==
    /\ sortType \in ESortType
    /\ files \in SeqsUpTo(SampleFiles, MaxFiles)
    /\ spc = "read" /\ si = 1 /\ sFinal = <<>> /\ sSink = NotWritten
    /\ mpc = "idle" /\ mi = 0 /\ done = <<>> /\ allDone = FALSE
    /\ wpc = <<>> /\ wres = <<>> /\ mFinal = <<>> /\ mSink = NotWritten
    /\ SortOff /\ CmpOff /\ LoadOff

others == <<sortType, sortVars, cmpVars, loadVars, files>>

\* singleThreading: one pass of the for loop over fileList.
SeqRead ==
    /\ spc = "read" /\ si <= NumFiles
    /\ sFinal' = sFinal \o ReadFile(files[si])
    /\ si' = si + 1
    /\ UNCHANGED <<spc, sSink, others, multiVars>>

\* singleThreading: finalList = MergeSortWrapper(finalList, sortType).
SeqSort ==
    /\ spc = "read" /\ si > NumFiles
    /\ sFinal' = MergeSortWrapper(sFinal, sortType)
    /\ spc' = "write"
    /\ UNCHANGED <<si, sSink, others, multiVars>>

\* singleThreading: WriteAndPrint(finalList, ...), and the return to main.
SeqWrite ==
    /\ spc = "write"
    /\ sSink' = sFinal
    /\ spc' = "done"
    /\ UNCHANGED <<si, sFinal, others, multiVars>>

\* multiThreading is called: futures and done are created, one slot a source.
MultiEnter ==
    /\ spc = "done" /\ mpc = "idle"
    /\ done' = [i \in 1..NumFiles |-> "null"]
    /\ wpc' = [i \in 1..NumFiles |-> "none"]
    /\ wres' = [i \in 1..NumFiles |-> <<>>]
    /\ mi' = 1
    /\ mpc' = IF NumFiles = 0 THEN "yield" ELSE "launch"
    /\ UNCHANGED <<allDone, mFinal, mSink, others, seqVars>>

\* One pass of the launching loop: the flag is made, the task is started.
Launch ==
    /\ mpc = "launch" /\ mi <= NumFiles
    /\ done' = [done EXCEPT ![mi] = "false"]
    /\ wpc' = [wpc EXCEPT ![mi] = "run"]
    /\ mi' = mi + 1
    /\ mpc' = IF mi = NumFiles THEN "yield" ELSE "launch"
    /\ UNCHANGED <<allDone, wres, mFinal, mSink, others, seqVars>>

WorkerResultTail(file) == IF ReadFile(file) = <<>> THEN <<>> ELSE Tail(ReadFile(file))

\* auto result = ReadFile(file) in the task.
WorkerResult(file) == ReadFile(file)

WorkerRead(i) ==
    /\ wpc[i] = "run"
    /\ wres' = [wres EXCEPT ![i] = WorkerResult(files[i])]
    /\ wpc' = [wpc EXCEPT ![i] = "read"]
    /\ UNCHANGED <<mpc, mi, done, allDone, mFinal, mSink, others, seqVars>>

\* *doneFlag = true in the task.
WorkerFlag(i) ==
    /\ wpc[i] = "read"
    /\ done' = [done EXCEPT ![i] = "true"]
    /\ wpc' = [wpc EXCEPT ![i] = "flagged"]
    /\ UNCHANGED <<mpc, mi, allDone, wres, mFinal, mSink, others, seqVars>>

\* return result in the task: its future becomes ready.
WorkerReturn(i) ==
    /\ wpc[i] = "flagged"
    /\ wpc' = [wpc EXCEPT ![i] = "ready"]
    /\ UNCHANGED <<mpc, mi, done, allDone, wres, mFinal, mSink, others, seqVars>>

Worker(i) == WorkerRead(i) \/ WorkerFlag(i) \/ WorkerReturn(i)

PollInitFalse == FALSE

\* allDone = true at the top of the do loop.
PollInit == TRUE

PollCombineLast(all, d) == d

\* allDone &= *d.
PollCombine(all, d) == all /\ d

\* this_thread::yield(); allDone = true.
Yield ==
    /\ mpc = "yield"
    /\ allDone' = PollInit
    /\ mi' = 1
    /\ mpc' = "poll"
    /\ UNCHANGED <<done, wpc, wres, mFinal, mSink, others, seqVars>>

\* One pass of the for loop over done: one flag is read.
PollRead ==
    /\ mpc = "poll" /\ mi <= NumFiles
    /\ allDone' = PollCombine(allDone, done[mi] = "true")
    /\ mi' = mi + 1
    /\ UNCHANGED <<mpc, done, wpc, wres, mFinal, mSink, others, seqVars>>

\* while (!allDone).
PollEnd ==
    /\ mpc = "poll" /\ mi > NumFiles
    /\ mpc' = IF allDone THEN "collect" ELSE "yield"
    /\ mi' = 1
    /\ UNCHANGED <<done, allDone, wpc, wres, mFinal, mSink, others, seqVars>>

\* One pass of the gathering loop: f.get() returns once the future is ready.
Collect ==
    /\ mpc = "collect" /\ mi <= NumFiles
    /\ wpc[mi] = "ready"
    /\ mFinal' = mFinal \o wres[mi]
    /\ mi' = mi + 1
    /\ UNCHANGED <<mpc, done, allDone, wpc, wres, mSink, others, seqVars>>

\* multiThreading: finalList = MergeSortWrapper(finalList, sortType).
MultiSort ==
    /\ mpc = "collect" /\ mi > NumFiles
    /\ mFinal' = MergeSortWrapper(mFinal, sortType)
    /\ mpc' = "write"
    /\ UNCHANGED <<mi, done, allDone, wpc, wres, mSink, others, seqVars>>

\* multiThreading: WriteAndPrint(finalList, ...), and the return to main.
MultiWrite ==
    /\ mpc = "write"
    /\ mSink' = mFinal
    /\ mpc' = "done"
    /\ UNCHANGED <<mi, done, allDone, wpc, wres, mFinal, others, seqVars>>

Sequential == SeqRead \/ SeqSort \/ SeqWrite

Orchestrator ==
    \/ MultiEnter \/ Launch \/ Yield \/ PollRead \/ PollEnd
    \/ Collect \/ MultiSort \/ MultiWrite

Next == Sequential \/ Orchestrator \/ \E i \in DOMAIN wpc : Worker(i)

Spec == Init /\ [][Next]_vars

\* The main thread and every task's thread keep being scheduled.
FairSpec ==
    /\ Spec
    /\ WF_vars(Sequential)
    /\ WF_vars(Orchestrator)
    /\ \A i \in 1..MaxFiles : WF_vars(i \in DOMAIN wpc /\ Worker(i))

(***************************************************************************)
(* Properties.                                                             *)
(***************************************************************************)
Count(x, seq) == Cardinality({p \in DOMAIN seq : seq[p] = x})

Range(seq) == {seq[p] : p \in DOMAIN seq}

IsPermutation(out, in) ==
    /\ Len(out) = Len(in)
    /\ \A x \in Range(in) \cup Range(out) : Count(x, out) = Count(x, in)

\* A Line of the data model: non-empty, every character in [A-Za-z].
IsLine(line) ==
    /\ line # <<>>
    /\ \A p \in DOMAIN line : line[p] \in (65..90) \cup (97..122)

\* The sources of a list that can be opened, in list order.
Openable(fileList) == SelectSeq(fileList, LAMBDA f : f.open)

\* The Aggregate Collection of a list of sources: their Documents, in order.
RECURSIVE Aggregate(_)
Aggregate(fileList) ==
    IF fileList = <<>> THEN <<>>
    ELSE ReadFile(Head(fileList)) \o Aggregate(Tail(fileList))

\* C1: once both strategies have handed their result to WriteAndPrint, the
\* two results are the same sequence, whatever the order in which the tasks
\* ran and completed.
C1_SameSortedOutput == mpc = "done" => mSink = sSink

C1_Witness ==
    /\ mpc = "done" /\ NumFiles = 2 /\ files[1] # files[2]
    /\ Len(mSink) >= 3 /\ mSink = sSink

\* C2: the sequence MergeSortWrapper returns has the length of its argument
\* and holds every string as many times as its argument does.
C2_Permutation ==
    sortPc = "done" => IsPermutation(Strs(sortRun.vec), listToSort)

C2_Witness ==
    /\ sortPc = "done" /\ Len(listToSort) = 3
    /\ \E p, q \in DOMAIN listToSort : p # q /\ listToSort[p] = listToSort[q]
    /\ Strs(sortRun.vec) # listToSort

\* C3: in the sequence MergeSortWrapper returns, IsFirstAboveSecond is true
\* of no element against an element that precedes it.
C3_NonDecreasing ==
    sortPc = "done" =>
        \A p, q \in DOMAIN sortRun.vec :
            p < q => ~IsFirstAboveSecond(sortType, sortRun.vec[q].str, sortRun.vec[p].str)

\* What is left of C3 apart from the equal strings of LastLetterAsc.
C3_HoldsElsewhere ==
    sortPc = "done" =>
        \A p, q \in DOMAIN sortRun.vec :
            (p < q /\ (sortType # "LastLetterAsc"
                         \/ sortRun.vec[p].str # sortRun.vec[q].str)) =>
                ~IsFirstAboveSecond(sortType, sortRun.vec[q].str, sortRun.vec[p].str)

\* C4: IsFirstAboveSecond is irreflexive, antisymmetric and transitive.
C4_StrictOrdering ==
    cmpPc = "done" =>
        /\ ~cmpOut[1][1]
        /\ ~(cmpOut[1][2] /\ cmpOut[2][1])
        /\ (cmpOut[1][2] /\ cmpOut[2][3]) => cmpOut[1][3]

\* What is left of C4: AlphAsc and AlphDesc have the three properties, and
\* LastLetterAsc has them on strings that differ.
C4_HoldsElsewhere ==
    cmpPc = "done" =>
        /\ sortType # "LastLetterAsc" => ~cmpOut[1][1]
        /\ cmpArgs[1] # cmpArgs[2] => ~(cmpOut[1][2] /\ cmpOut[2][1])
        /\ (cmpOut[1][2] /\ cmpOut[2][3]) => cmpOut[1][3]

\* C5: on the empty vector MergeSortWrapper returns the empty vector, and its
\* run of MergeSort makes no recursive call and accesses no element.
C5_EmptyInput ==
    (sortPc = "done" /\ listToSort = <<>>) =>
        /\ Strs(sortRun.vec) = <<>>
        /\ sortRun.calls = 0
        /\ sortRun.accesses = 0

C5_Witness == sortPc = "done" /\ listToSort = <<>> /\ sortRun.vec = <<>>

\* C6: the Document ReadFile returns for a source it opened is the
\* subsequence, in source order, of the lines of the source that are Lines.
C6_ValidSubsequence ==
    (loadPc = "done" /\ source.open) => listOut = SelectSeq(source.lines, IsLine)

C6_Witness ==
    /\ loadPc = "done" /\ source.open /\ Len(source.lines) = 2
    /\ source.lines[1] # <<>> /\ ~IsLine(source.lines[1])
    /\ IsLine(source.lines[2])
    /\ listOut = <<source.lines[2]>>

\* C7: in both strategies the Aggregate Collection is that of the list with
\* the sources that cannot be opened removed, the sink receives that
\* collection sorted, and the run reaches the sink.
C7_Aggregates ==
    LET kept == Aggregate(Openable(files))
    IN  /\ (spc = "read" /\ si > NumFiles) => sFinal = kept
        /\ spc = "done" => sSink = MergeSortWrapper(kept, sortType)
        /\ (mpc = "collect" /\ mi > NumFiles) => mFinal = kept
        /\ mpc = "done" => mSink = MergeSortWrapper(kept, sortType)

C7_UnopenableIsEmpty ==
    /\ []C7_Aggregates
    /\ <>(spc = "done" /\ sSink # NotWritten /\ mpc = "done" /\ mSink # NotWritten)

C7_Witness ==
    /\ mpc = "done" /\ NumFiles = 2
    /\ \E i \in 1..NumFiles : ~files[i].open
    /\ mSink # <<>> /\ sSink # <<>>

\* C8: the orchestrator is past the wait loop only with every flag set; a
\* flag becomes set only in the step of its own task that follows the return
\* of ReadFile in that task; a flag that is set stays set.
C8_Collecting == mpc \in {"collect", "write", "done"}

C8_FlagStep ==
    /\ \A i \in DOMAIN done :
           done[i] = "true" => (i \in DOMAIN done' /\ done'[i] = "true")
    /\ \A i \in DOMAIN done' :
           (done'[i] = "true" /\ ~(i \in DOMAIN done /\ done[i] = "true")) =>
               /\ wpc[i] = "read" /\ wpc'[i] = "flagged"
               /\ wres[i] = ReadFile(files[i])
               /\ \A j \in DOMAIN done' : j # i => done'[j] = done[j]

C8_CompletionBarrier ==
    /\ [](C8_Collecting => \A i \in 1..NumFiles : done[i] = "true")
    /\ [][C8_FlagStep]_vars

C8_Witness ==
    /\ mpc = "collect" /\ mi = 1 /\ NumFiles = 2
    /\ \A i \in 1..NumFiles : done[i] = "true"
    /\ \E i \in 1..NumFiles : wpc[i] = "flagged"

\* C9: under fair scheduling every task sets its flag, the task of a source
\* that cannot be opened included, and the run reaches the sink.
C9_EventuallyDone ==
    /\ \A i \in 1..MaxFiles :
           (i <= NumFiles) ~> (i \in DOMAIN done /\ done[i] = "true")
    /\ <>(mpc = "done" /\ mSink # NotWritten)

C9_Witness ==
    /\ mpc = "done" /\ mSink # NotWritten /\ NumFiles = 2
    /\ ~files[1].open /\ files[2].open
    /\ done[1] = "true" /\ wres[1] = <<>> /\ wres[2] # <<>>

\* C10: elements with equal strings leave MergeSortWrapper in the order in
\* which they entered it (on a tie merge emits the head of the upper half).
C10_Stable ==
    sortPc = "done" =>
        \A p, q \in DOMAIN sortRun.vec :
            (p < q /\ sortRun.vec[p].str = sortRun.vec[q].str) =>
                sortRun.vec[p].orig < sortRun.vec[q].orig
=============================================================================
